---------------------------- MODULE Spec2Model ----------------------------
(***************************************************************************)
(* A model of the mutation algebra and variant lineage engine of aide:     *)
(* Mutation and MutationSet (src/aide/base/mutations.py) and Variant       *)
(* (src/aide/base/variants.py).                                            *)
(*                                                                         *)
(* Sequences of residues are TLA+ sequences of one-character strings.      *)
(* Positions are 0-indexed as in the code, so position p of a Python       *)
(* string or list s is s[p + 1] here.                                      *)
(***************************************************************************)
EXTENDS Integers, Sequences, FiniteSets, TLC

VARIABLES
    seed,       \* the iteration order of Python sets in this process
    variants,   \* the Variant objects alive, by identity
    last,       \* the last Variant operation called and how it ended
    mset,       \* a MutationSet under the set operations
    mlast,      \* the last MutationSet operation and how it ended
    app,        \* one application of a MutationSet to a base sequence
    string,     \* the string last formatted from a Mutation or MutationSet
    diff,       \* one parse_mutations call between two sequences
    ids,        \* the id each Variant was constructed with, if any
    round,      \* one round of a campaign and its status in the database
    library     \* the labels of the variants of one Library, and its last query

vars == <<seed, variants, last, mset, mlast, app, string, diff, ids, round, library>>

-----------------------------------------------------------------------------
(* Bounds of the model. *)

\* longest literal base sequence of a root Variant
MaxLen == 2
\* largest position of a Mutation drawn as an input
MaxPos == 2
\* longest reference of a Mutation drawn as an input
MaxWidth == 2
\* largest order of an insertion drawn as an input
MaxOrder == 1
\* most Variant objects alive in one lineage
MaxVariants == 3
\* most edits the Variants of one lineage carry together
MaxEdits == 2
\* most Mutations in a MutationSet drawn as an input of the set operations
MaxSetSize == 3
\* largest position of a Mutation that is formatted and parsed back
MaxTextPos == 12
MaxTextLen == 4
MaxLibrary == 2
MaxRound == 2
\* most edits of its own that the Variant a single Mutation is applied to carries
MaxOwnEdits == 1

-----------------------------------------------------------------------------
(* Values. *)

Residues == {"A", "G"}
Gap == "-"
NewResidue == "T"

SeqsUpTo(S, n) == UNION {[1..k -> S] : k \in 0..n}

Bases == SeqsUpTo(Residues, MaxLen) \ {<<>>}

\* The literal sequences a root Variant is constructed from: A, AG, AGA, ...
RootSequences ==
    {[i \in 1..n |-> IF i % 2 = 1 THEN "A" ELSE "G"] : n \in 1..MaxLen}

Some(x) == [some |-> TRUE, val |-> x]
NoneSeq == [some |-> FALSE, val |-> <<>>]
NoneSet == [some |-> FALSE, val |-> {}]

Ok(x) == [ok |-> TRUE, val |-> x]
Err == [ok |-> FALSE, val |-> <<>>]

Seeds == [insFirst : BOOLEAN, lowFirst : BOOLEAN]

-----------------------------------------------------------------------------
(* Mutation *)

Mutation(position, ref, alt, order) ==
    [position |-> position, ref |-> ref, alt |-> alt, order |-> order]

initial_width(m) == Len(m.ref)

is_insertion(m) == m.ref = <<>>

is_deletion(m) == m.alt = <<Gap>>

\* The replacement texts drawn as inputs: one residue, two residues, a deletion.
Alts == {<<NewResidue>>, <<Gap>>, <<NewResidue, "A">>}

\* Every Mutation drawn as an input.  A non-insertion is drawn with the
\* default order 0.
Muts ==
    {m \in [position : 0..MaxPos, ref : SeqsUpTo(Residues, MaxWidth),
            alt : Alts, order : 0..MaxOrder] :
        /\ is_insertion(m) \/ m.order = 0
        /\ ~(is_insertion(m) /\ is_deletion(m))}

-----------------------------------------------------------------------------
(* Iteration order of a Python set of Mutations.  It follows the hashes of *)
(* the members, which differ from process to process (string hashing is    *)
(* seeded), and is fixed within one process: sd is that choice.            *)

IterLess(a, b, sd) ==
    IF a.position # b.position
    THEN IF sd.lowFirst THEN a.position < b.position ELSE a.position > b.position
    ELSE IF is_insertion(a) # is_insertion(b)
         THEN is_insertion(a) = sd.insFirst
         ELSE a.order < b.order

RECURSIVE IterSeq(_, _)
IterSeq(S, sd) ==
    IF S = {} THEN <<>>
    ELSE LET m == CHOOSE x \in S : \A y \in S \ {x} : ~IterLess(y, x, sd)
         IN  <<m>> \o IterSeq(S \ {m}, sd)

-----------------------------------------------------------------------------
(* MutationSet *)

\* The list `positions` of _check_unique_mutation_positions, one entry per
\* append or extend: the mutation that contributed it and the position.
PositionEntries(ms) ==
    {<<m, m.position>> : m \in {x \in ms : ~is_insertion(x)}}
    \cup UNION {{<<m, i>> : i \in (m.position + 1)..(m.position + initial_width(m) - 1)} :
                 m \in {x \in ms : initial_width(x) > 1}}

insertion_positions(ms) == {m.position : m \in {x \in ms : is_insertion(x)}}

\* "Cannot have an insertion inside a multi AA mutation."
InsertionInside(ms) ==
    \E m \in ms :
        /\ initial_width(m) > 1
        /\ \E i \in (m.position + 1)..(m.position + initial_width(m) - 1) :
               i \in insertion_positions(ms)

\* "The mutation positions must be unique": len(set(positions)) != len(positions)
PositionsRepeat(ms) ==
    Cardinality({e[2] : e \in PositionEntries(ms)}) # Cardinality(PositionEntries(ms))

\* A check that never compares the orders of insertions.
OrdersNeverRepeat(ms) == FALSE

\* "If multiple insertions occur at the same position, they must have a unique order."
OrdersRepeat(ms) ==
    \E p \in insertion_positions(ms) :
        LET insertion_list == {m \in ms : is_insertion(m) /\ m.position = p}
        IN  /\ Cardinality(insertion_list) > 1
            /\ Cardinality({m.order : m \in insertion_list}) # Cardinality(insertion_list)

\* TRUE when _check_unique_mutation_positions returns, FALSE when it raises.
check_unique_mutation_positions(ms) ==
    ~InsertionInside(ms) /\ ~PositionsRepeat(ms) /\ ~OrdersRepeat(ms)

\* sorted(list(self.mutations), key=lambda x: (x.position, x.order)): the sort
\* is stable, so members with equal keys stay in iteration order.
SortLess(a, b, sd) ==
    \/ a.position < b.position
    \/ a.position = b.position /\ a.order < b.order
    \/ a.position = b.position /\ a.order = b.order /\ IterLess(a, b, sd)

RECURSIVE sorted_by_position(_, _)
sorted_by_position(S, sd) ==
    IF S = {} THEN <<>>
    ELSE LET m == CHOOSE x \in S : \A y \in S \ {x} : ~SortLess(y, x, sd)
         IN  <<m>> \o sorted_by_position(S \ {m}, sd)

EndsWithGap(s) == Len(s) > 0 /\ s[Len(s)] = Gap

\* The loop of _aggregate_indels from index i on: cur is current_aggregate,
\* out the mutations appended to aggregated_mutations so far.
RECURSIVE AggregateLoop(_, _, _, _)
AggregateLoop(srt, i, cur, out) ==
    IF i > Len(srt) THEN out \cup {cur}
    ELSE LET mutation == srt[i] IN
         IF mutation.position = cur.position
         THEN AggregateLoop(srt, i + 1,
                  Mutation(cur.position, cur.ref, cur.alt \o mutation.alt, cur.order), out)
         ELSE IF mutation.position = cur.position + initial_width(cur)
         THEN IF EndsWithGap(cur.alt) /\ is_deletion(mutation)
              THEN AggregateLoop(srt, i + 1,
                       Mutation(cur.position, cur.ref \o mutation.ref, cur.alt, cur.order), out)
              ELSE AggregateLoop(srt, i + 1, mutation, out \cup {cur})
         ELSE AggregateLoop(srt, i + 1, mutation, out \cup {cur})

AggregateFrom(srt) == AggregateLoop(srt, 2, srt[1], {})

aggregate_indels(ms, sd) ==
    IF ms = {} THEN {}
    ELSE AggregateFrom(sorted_by_position(ms, sd))

\* MutationSet(mutations, aggregate_indels): the members of the new set, or
\* Err when the constructor raises.
MutationSetInit(mutations, aggregate, sd) ==
    IF ~check_unique_mutation_positions(mutations) THEN [ok |-> FALSE, val |-> {}]
    ELSE IF aggregate THEN Ok(aggregate_indels(mutations, sd))
    ELSE Ok(mutations)

-----------------------------------------------------------------------------
(* Applying a MutationSet to a base sequence *)

Last(s) == s[Len(s)]

\* position_map: {m.position: m for m in self.mutations}; of the members at
\* one position the one iterated last stays in the dict.
position_map(ms, sd) ==
    [p \in {m.position : m \in ms} |-> Last(IterSeq({m \in ms : m.position = p}, sd))]

Gaps(n) == [k \in 1..n |-> <<Gap>>]

\* The loop of MutationSet._get_variant_base_list from index i (0-based) on.
\* excess is last_mutation_excess, with 0 for None: the code tests it only
\* by "is not None and > 0".
RECURSIVE BaseListLoop(_, _, _, _, _)
BaseListLoop(pm, base, i, output, excess) ==
    IF i >= Len(base) THEN output
    ELSE IF i \in DOMAIN pm
    THEN LET mutation == pm[i]
             slot == IF initial_width(mutation) > 1 THEN mutation.ref ELSE <<base[i + 1]>>
             pad == IF initial_width(mutation) > 1 THEN initial_width(mutation) - 1 ELSE 0
         IN  BaseListLoop(pm, base, i + 1, (output \o <<slot>>) \o Gaps(pad),
                          initial_width(mutation) - 1)
    ELSE IF excess > 0
    THEN BaseListLoop(pm, base, i + 1, output, excess - 1)
    ELSE BaseListLoop(pm, base, i + 1, output \o <<<<base[i + 1]>>>>, excess)

get_variant_base_list(ms, base, sd) ==
    BaseListLoop(position_map(ms, sd), base, 0, <<>>, 0)

\* Mutation._update_variant_list on aa_list: the new list, or Err for the
\* IndexError of an index beyond the list.
update_variant_list(m, aa_list) ==
    IF ~is_insertion(m)
    THEN IF m.position < Len(aa_list)
         THEN Ok([aa_list EXCEPT ![m.position + 1] = m.alt])
         ELSE Err
    ELSE IF m.position = Len(aa_list)
         THEN Ok(Append(aa_list, m.alt))
         ELSE IF m.position < Len(aa_list)
              THEN Ok([aa_list EXCEPT ![m.position + 1] = m.alt \o aa_list[m.position + 1]])
              ELSE Err

\* _update_variant_list of the mutations of todo, in that order.
RECURSIVE UpdateAll(_, _, _)
UpdateAll(todo, i, r) ==
    IF i > Len(todo) \/ ~r.ok THEN r
    ELSE UpdateAll(todo, i + 1, update_variant_list(todo[i], r.val))

\* The insertions of a position applied in ascending order, not reversed.
InsertionLessNotReversed(a, b, sd) ==
    IF a.position # b.position THEN IterLess(a, b, sd) ELSE a.order < b.order

\* The order in which get_variant_str applies the insertions: the groups in
\* the order their positions are first met iterating the set, each group
\* sorted by order and reversed.
InsertionLess(a, b, sd) ==
    IF a.position # b.position THEN IterLess(a, b, sd) ELSE a.order > b.order

RECURSIVE InsertionSeq(_, _)
InsertionSeq(S, sd) ==
    IF S = {} THEN <<>>
    ELSE LET m == CHOOSE x \in S : \A y \in S \ {x} : ~InsertionLess(y, x, sd)
         IN  <<m>> \o InsertionSeq(S \ {m}, sd)

RECURSIVE Join(_)
Join(aa_list) ==
    IF aa_list = <<>> THEN <<>> ELSE Head(aa_list) \o Join(Tail(aa_list))

\* A sequence whose gaps are kept.
GapsKept(sequence) == sequence

\* Mutation._remove_gaps: sequence.replace('-', '')
remove_gaps(sequence) == SelectSeq(sequence, LAMBDA c : c # Gap)

\* The end of get_variant_str: ''.join(aa_list) without its gaps.
JoinResult(done) ==
    IF done.ok THEN Ok(remove_gaps(Join(done.val))) ELSE Err

\* aa_list of get_variant_str after the loop over the non-insertions.
after_substitutions(ms, base, sd) ==
    UpdateAll(IterSeq({m \in ms : ~is_insertion(m)}, sd), 1,
        Ok(get_variant_base_list(ms, base, sd)))

\* aa_list of get_variant_str after the loops over the insertions.
after_insertions(ms, base, sd) ==
    UpdateAll(InsertionSeq({m \in ms : is_insertion(m)}, sd), 1,
        after_substitutions(ms, base, sd))

\* MutationSet.get_variant_str on a variant whose base_sequence is base and
\* whose mutations are this set (no validity check): the sequence, or Err.
get_variant_str(ms, base, sd) == JoinResult(after_insertions(ms, base, sd))

\* list(str(variant)): one slot for each character.
Slots(sequence) == [k \in 1..Len(sequence) |-> <<sequence[k]>>]

\* The loop of Mutation._get_variant_base_list from index i (0-based) on,
\* with 0 for a last_mutation_excess of None.
RECURSIVE MutationBaseListLoop(_, _, _, _, _)
MutationBaseListLoop(m, base, i, output, excess) ==
    IF i >= Len(base) THEN output
    ELSE IF i = m.position
    THEN MutationBaseListLoop(m, base, i + 1,
             (output \o <<IF initial_width(m) > 1 THEN m.ref ELSE <<base[i + 1]>>>>)
                 \o Gaps(IF initial_width(m) > 1 THEN initial_width(m) - 1 ELSE 0),
             initial_width(m) - 1)
    ELSE IF excess > 0
    THEN MutationBaseListLoop(m, base, i + 1, output, excess - 1)
    ELSE MutationBaseListLoop(m, base, i + 1, output \o <<<<base[i + 1]>>>>, excess)

\* Mutation._get_variant_base_list on a variant whose str is sequence and
\* whose base_sequence is base.
mutation_get_variant_base_list(m, sequence, base) ==
    IF initial_width(m) = 1 THEN Slots(sequence)
    ELSE MutationBaseListLoop(m, base, 0, <<>>, 0)

\* Mutation.get_variant_str after _check_validity has passed.
mutation_apply(m, sequence, base) ==
    JoinResult(update_variant_list(m, mutation_get_variant_base_list(m, sequence, base)))

-----------------------------------------------------------------------------
(* Strings: formatting and parsing of Mutations and MutationSets.  A       *)
(* string is a sequence of one-character strings.                          *)

DigitChars == <<"0", "1", "2", "3", "4", "5", "6", "7", "8", "9">>

Digits == {DigitChars[i] : i \in 1..Len(DigitChars)}

Upper ==
    {"A", "B", "C", "D", "E", "F", "G", "H", "I", "J", "K", "L", "M",
     "N", "O", "P", "Q", "R", "S", "T", "U", "V", "W", "X", "Y", "Z"}

\* str(n) of a natural number
RECURSIVE ToDigits(_)
ToDigits(n) ==
    IF n < Len(DigitChars) THEN <<DigitChars[n + 1]>>
    ELSE ToDigits(n \div Len(DigitChars)) \o <<DigitChars[(n % Len(DigitChars)) + 1]>>

DigitValue(c) == (CHOOSE i \in 1..Len(DigitChars) : DigitChars[i] = c) - 1

\* int(s) of a string of digits
RECURSIVE FromDigits(_)
FromDigits(s) ==
    IF s = <<>> THEN 0
    ELSE FromDigits(SubSeq(s, 1, Len(s) - 1)) * Len(DigitChars) + DigitValue(s[Len(s)])

\* Mutation.__str__
FormatRef(m) ==
    IF Len(m.ref) = 1 THEN m.ref
    ELSE IF m.ref = <<>> THEN ToDigits(m.order) \o <<">">>
    ELSE (<<"[">> \o m.ref) \o <<"]">>

FormatAlt(m) ==
    IF Len(m.alt) = 1 THEN m.alt ELSE (<<"[">> \o m.alt) \o <<"]">>

mutation_str(m) == (FormatRef(m) \o ToDigits(m.position)) \o FormatAlt(m)

\* ';'.join(strs)
RECURSIVE JoinWith(_, _)
JoinWith(strs, sep) ==
    IF strs = <<>> THEN <<>>
    ELSE IF Len(strs) = 1 THEN strs[1]
    ELSE (strs[1] \o sep) \o JoinWith(Tail(strs), sep)

MapStr(srt) == [i \in 1..Len(srt) |-> mutation_str(srt[i])]

\* MutationSet.__str__
set_str(ms, sd) == JoinWith(MapStr(sorted_by_position(ms, sd)), <<";">>)

\* The index after the longest run of characters of class C from index i.
RECURSIVE RunEnd(_, _, _)
RunEnd(s, i, C) ==
    IF i <= Len(s) /\ s[i] \in C THEN RunEnd(s, i + 1, C) ELSE i

\* The index after an optional character c at index i.
SkipOne(s, i, c) == IF i <= Len(s) /\ s[i] = c THEN i + 1 ELSE i

WithoutBrackets(s) == SelectSeq(s, LAMBDA c : c # "[" /\ c # "]")

\* The groups of the pattern of _parse_mutation_string, matched from the
\* left: each operator takes the index where its group starts and the
\* groups matched before it.

\* (?P<alt>\[?[A-Z-]+\]?) from index i, with run the end of its residues
MatchAltRun(s, i, run, ref, pos, order) ==
    IF run = SkipOne(s, i, "[") THEN Err
    ELSE Ok([ref |-> ref, pos |-> pos, order |-> order,
             alt |-> WithoutBrackets(SubSeq(s, i, SkipOne(s, run, "]") - 1))])

MatchAlt(s, i, ref, pos, order) ==
    MatchAltRun(s, i, RunEnd(s, SkipOne(s, i, "["), Upper \cup {Gap}), ref, pos, order)

\* (?P<pos>\d+) from index i, with e the end of its digits
MatchPosRun(s, i, e, ref, order) ==
    IF e = i THEN Err
    ELSE MatchAlt(s, e, ref, FromDigits(SubSeq(s, i, e - 1)), order)

MatchPos(s, i, ref, order) == MatchPosRun(s, i, RunEnd(s, i, Digits), ref, order)

\* (?P<ref>\[?[A-Z>]+\]?)? from index i, with run the end of its residues
MatchRefRun(s, i, run, order) ==
    IF run = SkipOne(s, i, "[") THEN MatchPos(s, i, <<>>, order)
    ELSE MatchPos(s, SkipOne(s, run, "]"),
             WithoutBrackets(SubSeq(s, i, SkipOne(s, run, "]") - 1)), order)

MatchRef(s, i, order) ==
    MatchRefRun(s, i, RunEnd(s, SkipOne(s, i, "["), Upper \cup {">"}), order)

\* (?P<order>\d+>)? from index 1, with e the end of its digits
MatchOrderRun(s, e) ==
    IF e > 1 /\ e <= Len(s) /\ s[e] = ">"
    THEN MatchRef(s, e + 1, Some(FromDigits(SubSeq(s, 1, e - 1))))
    ELSE MatchRef(s, 1, [some |-> FALSE, val |-> 0])

\* The assignments of _parse_mutation_string after a match g.
Groups(g) ==
    IF ~g.ok THEN g
    ELSE Ok([ref |-> IF g.val.ref = <<">">> THEN <<>> ELSE g.val.ref,
             pos |-> g.val.pos,
             alt |-> g.val.alt,
             order |-> IF g.val.order.some THEN g.val.order.val ELSE 0])

\* Mutation._parse_mutation_string: ref, pos, alt and order, or Err for the
\* ValueError of a string the pattern does not match.
parse_mutation_string(s) == Groups(MatchOrderRun(s, RunEnd(s, 1, Digits)))

\* The end of Mutation.from_string once the string parsed as g.
Positioned(g, shift) ==
    IF ~g.ok THEN Err
    ELSE IF ~(g.val.pos - shift >= 0) THEN Err
    ELSE Ok(Mutation(g.val.pos - shift, g.val.ref, g.val.alt, g.val.order))

\* Mutation.from_string(mutation, zero_indexed)
mutation_from_string(s, zero_indexed) ==
    Positioned(parse_mutation_string(s), IF zero_indexed THEN 0 ELSE 1)

\* s.split(';')
RECURSIVE SplitFrom(_, _, _)
SplitFrom(s, i, piece) ==
    IF i > Len(s) THEN <<piece>>
    ELSE IF s[i] = ";" THEN <<piece>> \o SplitFrom(s, i + 1, <<>>)
    ELSE SplitFrom(s, i + 1, Append(piece, s[i]))

split(s) == SplitFrom(s, 1, <<>>)

\* The list comprehension of MutationSet.from_string over the pieces.
ParsedPieces(pieces, zero_indexed) ==
    [i \in 1..Len(pieces) |-> mutation_from_string(pieces[i], zero_indexed)]

\* cls([...]) of MutationSet.from_string once the pieces parsed as parsed.
FromParsed(parsed, sd) ==
    IF \E i \in 1..Len(parsed) : ~parsed[i].ok THEN [ok |-> FALSE, val |-> {}]
    ELSE MutationSetInit({parsed[i].val : i \in 1..Len(parsed)}, FALSE, sd)

\* MutationSet.from_string(mutations, zero_indexed) of one string
set_from_string(s, zero_indexed, sd) ==
    FromParsed(ParsedPieces(split(s), zero_indexed), sd)

-----------------------------------------------------------------------------
(* Variant.parse_mutations: the edits that turn one sequence into another, *)
(* read off two strings column by column.                                  *)

\* A substitution written with the residues exchanged.
SubstitutionStrExchanged(s1, pos1, s2) == (<<s2>> \o ToDigits(pos1)) \o <<s1>>

\* f"{s1}{pos1}{s2}"
substitution_str(s1, pos1, s2) == (<<s1>> \o ToDigits(pos1)) \o <<s2>>

\* An order that is never set back to 0.
OrderNeverReset(s1, order) == order

\* "always reset order if not an insertion"
ResetOrder(s1, order) == IF s1 # Gap THEN 0 ELSE order

\* mutation_str of one column, the empty string when there is no mutation.
ColumnStr(s1, s2, pos1, order) ==
    IF s1 # Gap /\ s2 # Gap
    THEN IF s1 # s2 THEN substitution_str(s1, pos1, s2) ELSE <<>>
    ELSE IF s1 = Gap
    THEN ((ToDigits(order) \o <<">">>) \o ToDigits(pos1)) \o <<s2>>
    ELSE (<<s1>> \o ToDigits(pos1)) \o <<Gap>>

\* mutations.append(Mutation.from_string(mutation_str, zero_indexed=True))
Emit(mutations, column) ==
    IF column = <<>> THEN mutations
    ELSE Append(mutations, mutation_from_string(column, TRUE))

\* The loop over zip(query, subject) from column j on.
RECURSIVE DiffLoop(_, _, _, _, _, _)
DiffStep(query, subject, j, pos1, order, mutations) ==
    DiffLoop(query, subject, j + 1,
             IF query[j] # Gap THEN pos1 + 1 ELSE pos1,
             IF query[j] = Gap THEN order + 1 ELSE order,
             Emit(mutations, ColumnStr(query[j], subject[j], pos1, order)))

DiffLoop(query, subject, j, pos1, order, mutations) ==
    IF j > Len(query) \/ j > Len(subject) THEN mutations
    ELSE DiffStep(query, subject, j, pos1, ResetOrder(query[j], order), mutations)

\* MutationSet(mutations, aggregate_indels=aggregate_indels) of the list
DiffResult(parsed, aggregate, sd) ==
    IF \E i \in 1..Len(parsed) : ~parsed[i].ok THEN [ok |-> FALSE, val |-> {}]
    ELSE MutationSetInit({parsed[i].val : i \in 1..Len(parsed)}, aggregate, sd)

\* parse_mutations from the two strings on: the MutationSet, or Err.
parse_mutations(query, subject, aggregate, sd) ==
    DiffResult(DiffLoop(query, subject, 1, 0, 0, <<>>), aggregate, sd)

\* What biopython_align may return for two sequences: two strings of one
\* length that are the sequences with gaps put in, no column of two gaps.
RECURSIVE Alignments(_, _)
Prefixed(s1, s2, rest) == {<<<<s1>> \o al[1], <<s2>> \o al[2]>> : al \in rest}

Alignments(a, b) ==
    IF a = <<>> /\ b = <<>> THEN {<<<<>>, <<>>>>}
    ELSE (IF a # <<>> /\ b # <<>>
          THEN Prefixed(Head(a), Head(b), Alignments(Tail(a), Tail(b))) ELSE {})
         \cup (IF a # <<>> THEN Prefixed(Head(a), Gap, Alignments(Tail(a), b)) ELSE {})
         \cup (IF b # <<>> THEN Prefixed(Gap, Head(b), Alignments(a, Tail(b))) ELSE {})

-----------------------------------------------------------------------------
(* Variant *)

\* A hash that does not tell one membership from another.
HashOfNothing(ms) == {}

\* hash(self.mutations) is MutableSet._hash, a function of the membership
\* alone; two different memberships are taken to hash differently.
Hash(ms) == ms

\* A Variant just after the assignments of __init__ that precede
\* add_mutations: a root over a literal sequence, or a child of parent.
NewRoot(sequence) ==
    [base_sequence |-> Some(sequence), parent |-> 0, children |-> {},
     mutations |-> {}, str |-> NoneSeq, hash |-> NoneSet]

NewChild(parent) ==
    [base_sequence |-> NoneSeq, parent |-> parent, children |-> {},
     mutations |-> {}, str |-> NoneSeq, hash |-> NoneSet]

\* A Variant that stays mutable with children attached.
MutatableWithChildren(vs, v) == TRUE

\* Variant.mutatable (every Variant is constructed with mutatable=True)
mutatable(vs, v) == vs[v].children = {}

\* Python's s[a:b]
Slice(s, a, b) == SubSeq(s, a + 1, IF b < Len(s) THEN b ELSE Len(s))

\* A step of a Variant method: the lineage with the caches filled so far
\* and the value, or Err when applying an edit set raised.
Step(vs, out) == [vs |-> vs, out |-> out]

\* The end of a Variant method: the lineage it leaves and the error it
\* raised ("none" when it returned).
Ended(vs, err) == [vs |-> vs, err |-> err]

\* The assignments of __str__ after a recomputation that returned r.
StoreStr(vs, v, r) ==
    IF ~r.ok THEN Step(vs, Err)
    ELSE Step([vs EXCEPT ![v].str = Some(r.val),
                         ![v].hash = Some(Hash(vs[v].mutations))], r)

\* self.mutations.get_variant_str(self), once base_sequence ended as b.
Recompute(v, b) ==
    StoreStr(b.vs, v,
        IF b.out.ok THEN get_variant_str(b.vs[v].mutations, b.out.val, seed) ELSE Err)

\* Variant.__str__ and Variant.base_sequence on v.
RECURSIVE str(_, _)
RECURSIVE base_sequence(_, _)
base_sequence(vs, v) ==
    IF vs[v].base_sequence.some
    THEN Step(vs, Ok(vs[v].base_sequence.val))
    ELSE str(vs, vs[v].parent)

str(vs, v) ==
    IF vs[v].str.some /\ vs[v].hash = Some(Hash(vs[v].mutations))
    THEN Step(vs, Ok(vs[v].str.val))
    ELSE Recompute(v, base_sequence(vs, v))

\* The comparison of the reference in Mutation._check_validity, once
\* base_sequence ended as b.
CompareReference(m, b) ==
    IF ~b.out.ok THEN Ended(b.vs, "index")
    ELSE IF Slice(b.out.val, m.position, m.position + initial_width(m)) # m.ref
    THEN Ended(b.vs, "invalid")
    ELSE Ended(b.vs, "none")

\* The test of an insertion's position in Mutation._check_validity, once
\* len(variant) ended as l.
CompareLength(v, m, l) ==
    IF ~l.out.ok THEN Ended(l.vs, "index")
    ELSE IF m.position > Len(l.out.val) THEN Ended(l.vs, "invalid")
    ELSE CompareReference(m, base_sequence(l.vs, v))

\* Mutation._check_validity(variant)
mutation_check_validity(vs, v, m) ==
    IF is_insertion(m)
    THEN CompareLength(v, m, str(vs, v))
    ELSE CompareReference(m, base_sequence(vs, v))

\* MutationSet._check_validity(variant): the members of todo in turn.
RECURSIVE check_validity(_, _, _, _)
CheckNext(r, v, todo, i) ==
    IF r.err # "none" THEN r ELSE check_validity(r.vs, v, todo, i + 1)

check_validity(vs, v, todo, i) ==
    IF i > Len(todo) THEN Ended(vs, "none")
    ELSE CheckNext(mutation_check_validity(vs, v, todo[i]), v, todo, i)

\* The edits assigned whether or not _check_validity raised.
AssignBeforeCheck(v, new_mutations, c) ==
    Ended([c.vs EXCEPT ![v].mutations = new_mutations], c.err)

\* self.mutations = new_mutations, once _check_validity ended as c.
Assign(v, new_mutations, c) ==
    IF c.err # "none" THEN c
    ELSE Ended([c.vs EXCEPT ![v].mutations = new_mutations], "none")

\* Variant.add_mutations(mutations)
add_mutations(vs, v, mutations) ==
    IF ~mutatable(vs, v) THEN Ended(vs, "immutable")
    ELSE IF ~check_unique_mutation_positions(vs[v].mutations \cup mutations)
    THEN Ended(vs, "conflict")
    ELSE Assign(v, vs[v].mutations \cup mutations,
             check_validity(vs, v, IterSeq(vs[v].mutations \cup mutations, seed), 1))

\* A child that its parent does not hold.
AddChildUnheld(vs, parent) == Append(vs, NewChild(parent))

\* parent._add_child(self) of __init__
AddChild(vs, parent) ==
    Append([vs EXCEPT ![parent].children = @ \cup {Len(vs) + 1}], NewChild(parent))

\* Variant(parent, mutations=...), which is also parent.propegate(mutations).
\* given.malformed: the mutations are a string that Mutation.from_string
\* rejects; otherwise given.muts are the mutations the argument holds.
VariantInit(vs, parent, given) ==
    IF given.malformed THEN Ended(AddChild(vs, parent), "malformed")
    ELSE IF ~check_unique_mutation_positions(given.muts)
    THEN Ended(AddChild(vs, parent), "conflict")
    ELSE add_mutations(AddChild(vs, parent), Len(vs) + 1, given.muts)

\* A constructor that raised leaves no Variant behind when nothing else
\* refers to the new object.
Kept(vs, r) == IF r.err # "none" THEN Ended(vs, r.err) ELSE r

\* Variant(sequence, mutations=...) with a string for sequence
RootInit(vs, sequence, given) ==
    IF given.malformed THEN Ended(vs, "malformed")
    ELSE IF ~check_unique_mutation_positions(given.muts) THEN Ended(vs, "conflict")
    ELSE Kept(vs, add_mutations(Append(vs, NewRoot(sequence)), Len(vs) + 1, given.muts))

\* A hash that is always the hash of the base the Variant was built on.
HashOfBase(vs, names, v) == Step(vs, Ok(vs[v].base_sequence.val))

\* Variant.__hash__, a hash being modelled by the value that is hashed:
\* the id the Variant was constructed with, or else str(self).
variant_hash(vs, names, v) ==
    IF names[v].some THEN Step(vs, Ok(names[v].val)) ELSE str(vs, v)

\* A cut that leaves the Variant with an empty literal base.
DetachWithoutSequence(v, parent, s) ==
    IF ~s.out.ok THEN Ended(s.vs, "index")
    ELSE Ended([s.vs EXCEPT ![parent].children = @ \ {v},
                           ![v].parent = 0,
                           ![v].base_sequence = Some(<<>>)], "none")

\* The assignments of cut_parent, once str(self.parent) ended as s.
Detach(v, parent, s) ==
    IF ~s.out.ok THEN Ended(s.vs, "index")
    ELSE Ended([s.vs EXCEPT ![parent].children = @ \ {v},
                           ![v].parent = 0,
                           ![v].base_sequence = Some(s.out.val)], "none")

\* Variant.cut_parent()
cut_parent(vs, v) ==
    IF vs[v].parent = 0 THEN Ended(vs, "noparent")
    ELSE Detach(v, vs[v].parent, str(vs, vs[v].parent))

\* Variant.cut_children(): cut_parent on each child of the snapshot todo.
RECURSIVE cut_children_loop(_, _, _)
CutNext(r, todo, i) ==
    IF r.err # "none" THEN r ELSE cut_children_loop(r.vs, todo, i + 1)

cut_children_loop(vs, todo, i) ==
    IF i > Len(todo) THEN Ended(vs, "none")
    ELSE CutNext(cut_parent(vs, todo[i]), todo, i)

\* list(self.children.values()): the children in the order they were added
RECURSIVE children_list(_)
children_list(S) ==
    IF S = {} THEN <<>>
    ELSE <<CHOOSE y \in S : \A z \in S : y <= z>>
         \o children_list(S \ {CHOOSE y \in S : \A z \in S : y <= z})

cut_children(vs, v) == cut_children_loop(vs, children_list(vs[v].children), 1)

\* A comparison that finds any two materialized Variants equal.
EqResultAlways(sa, b) ==
    IF ~b.out.ok THEN Step(b.vs, Err) ELSE Step(b.vs, Ok(TRUE))

\* Variant.__eq__: str(self) == str(other), once str(self) ended as a.
EqResult(sa, b) ==
    IF ~b.out.ok THEN Step(b.vs, Err) ELSE Step(b.vs, Ok(sa = b.out.val))

EqOther(a, other) ==
    IF ~a.out.ok THEN Step(a.vs, Err) ELSE EqResult(a.out.val, str(a.vs, other))

eq(vs, v, other) == EqOther(str(vs, v), other)

\* The loop of is_descendant_of: up the parents of current until one
\* equals other.
RECURSIVE is_descendant_of(_, _, _)
ParentCompared(e, parent, other) ==
    IF ~e.out.ok THEN e
    ELSE IF e.out.val THEN e
    ELSE is_descendant_of(e.vs, parent, other)

is_descendant_of(vs, current, other) ==
    IF vs[current].parent = 0 THEN Step(vs, Ok(FALSE))
    ELSE ParentCompared(eq(vs, vs[current].parent, other), vs[current].parent, other)

is_ancestor_of(vs, v, other) == is_descendant_of(vs, other, v)

-----------------------------------------------------------------------------
(* The lineage: one root Variant, and the operations called on the         *)
(* Variants reachable from it.                                             *)

\* The Mutations passed to the Variant operations: an insertion of one
\* residue at any position, and at position 0 a substitution or a deletion
\* of a prefix of the root sequences.
LineageMuts ==
    {m \in Muts :
        /\ m.order = 0
        /\ Len(m.alt) = 1
        /\ IF is_insertion(m) THEN m.alt = <<NewResidue>>
           ELSE m.position = 0 /\ m.ref \in RootSequences}

\* An argument of add_mutations: a Mutation, or an empty MutationSet.
AddArgs == {{}} \cup {{m} : m \in LineageMuts}

\* An argument of propegate: None, a Mutation, a string of two mutations at
\* one position, or a string that from_string rejects.
GivenMuts ==
    {{}} \cup UNION {{{a, b} : a, b \in {m \in LineageMuts : m.position = p}} :
                      p \in 0..MaxPos}

GivenArgs ==
    {[malformed |-> TRUE, muts |-> {}]}
    \cup {[malformed |-> FALSE, muts |-> S] : S \in GivenMuts}

\* The iteration orders of the lineage's processes: by ascending position
\* with insertions first, or the reverse.
LineageSeeds == {sd \in Seeds : sd.insFirst = sd.lowFirst}

IdleLast == [op |-> "none", ok |-> TRUE, given |-> {}]
IdleApp == [base |-> <<>>, muts |-> {}, done |-> FALSE, out |-> Ok(<<>>)]
\* A round that has not been added to a database, and an empty Library.
IdleRound ==
    [added |-> FALSE, status |-> "not ready", putative_library |-> FALSE,
     library_for_exp |-> FALSE, start_time |-> FALSE, end_time |-> FALSE,
     notes |-> FALSE, op |-> "none", err |-> "none"]

IdleLibrary ==
    [labels |-> <<>>, op |-> "none", names |-> NoneSet,
     round_idx |-> [some |-> FALSE, val |-> 0], out |-> {}]

IdleDiff == [self |-> <<>>, other |-> <<>>, done |-> FALSE, query |-> <<>>,
             subject |-> <<>>, out |-> [ok |-> TRUE, val |-> {}]]

Ids == 1..Len(variants)

RECURSIVE EditCount(_, _)
EditCount(vs, i) ==
    IF i > Len(vs) THEN 0 ELSE Cardinality(vs[i].mutations) + EditCount(vs, i + 1)

Init ==
    /\ seed \in LineageSeeds
    /\ \E sequence \in RootSequences : variants = <<NewRoot(sequence)>>
    /\ last = [op |-> "Variant", err |-> "none"]
    /\ mset = {}
    /\ mlast = IdleLast
    /\ app = IdleApp
    /\ string = NoneSeq
    /\ diff = IdleDiff
    /\ ids = <<NoneSeq>>
    /\ round = IdleRound
    /\ library = IdleLibrary

\* The lineage and the record of the call after an operation ended as r.
\* id is the id a Variant constructed by the operation was given.
ReturnNamed(op, r, id) ==
    /\ variants' = r.vs
    /\ last' = [op |-> op, err |-> r.err]
    /\ ids' = IF Len(r.vs) > Len(ids) THEN Append(ids, id) ELSE ids
    /\ UNCHANGED <<seed, mset, mlast, app, string, diff, round, library>>

Return(op, r) == ReturnNamed(op, r, NoneSeq)

StrEnded(s) == Ended(s.vs, IF s.out.ok THEN "none" ELSE "index")

Propegate(parent, given) ==
    /\ Len(variants) < MaxVariants
    /\ EditCount(variants, 1) + Cardinality(given.muts) <= MaxEdits
    /\ Return("propegate", VariantInit(variants, parent, given))

AddMutations(v, mutations) ==
    /\ EditCount(variants, 1) + Cardinality(mutations \ variants[v].mutations) <= MaxEdits
    /\ Return("add_mutations", add_mutations(variants, v, mutations))

CutParent(v) == Return("cut_parent", cut_parent(variants, v))

CutChildren(v) == Return("cut_children", cut_children(variants, v))

\* str(variant)
Materialize(v) == Return("str", StrEnded(str(variants, v)))

\* The Variants the queries are asked about: the parent and the children.
Kin(v) == {u \in Ids : variants[v].parent = u \/ u \in variants[v].children}

IsDescendantOf(v, other) ==
    Return("is_descendant_of", StrEnded(is_descendant_of(variants, v, other)))

IsAncestorOf(v, other) ==
    Return("is_ancestor_of", StrEnded(is_ancestor_of(variants, v, other)))

Next ==
    \/ \E parent \in Ids, given \in GivenArgs : Propegate(parent, given)
    \/ \E v \in Ids, mutations \in AddArgs : AddMutations(v, mutations)
    \/ \E v \in Ids : CutParent(v)
    \/ \E v \in Ids : CutChildren(v)
    \/ \E v \in Ids : Materialize(v)
    \/ \E v \in Ids : \E other \in Kin(v) : IsDescendantOf(v, other)
    \/ \E v \in Ids : \E other \in Kin(v) : IsAncestorOf(v, other)

Spec == Init /\ [][Next]_vars

-----------------------------------------------------------------------------
(* The set operations: one MutationSet, constructed and then changed by    *)
(* add and discard or replaced by its union, intersection or difference    *)
(* with another MutationSet.                                               *)

RECURSIVE SetsUpTo(_, _)
Extend(T, S) == T \cup {t \cup {x} : t \in T, x \in S}

SetsUpTo(S, n) == IF n = 0 THEN {{}} ELSE Extend(SetsUpTo(S, n - 1), S)

\* The Mutations of the set operations, on a sequence of MaxLen residues A:
\* a substitution, a deletion of one or more residues, an insertion with
\* any order and a second insertion text with order 0.
SetMuts ==
    {m \in Muts :
        /\ \A i \in 1..Len(m.ref) : m.ref[i] = "A"
        /\ m.position + initial_width(m) <= MaxLen
        /\ IF is_insertion(m) THEN m.alt = <<NewResidue>> \/ m.order = 0
           ELSE is_deletion(m) \/ (m.alt = <<NewResidue>> /\ initial_width(m) = 1)}

\* The iterables a MutationSet is constructed from.
SetLists == SetsUpTo(SetMuts, MaxSetSize)

\* The MutationSets that are the other operand of a binary operation.
Operands ==
    {S \in SetsUpTo({m \in SetMuts : m.order = 0 /\ m.alt = <<NewResidue>>}, 2) :
        check_unique_mutation_positions(S)}

\* The iteration orders that differ on the members of SetMuts.
SetSeeds == {sd \in Seeds : sd.lowFirst}

\* The constructor has returned a MutationSet.
Built == mlast.op # "none" /\ ~(mlast.op = "MutationSet" /\ ~mlast.ok)

\* MutationSet.add: the members afterwards, or Err when it raises.
add(ms, mutation) ==
    IF check_unique_mutation_positions(ms \cup {mutation})
    THEN Ok(ms \cup {mutation})
    ELSE [ok |-> FALSE, val |-> {}]

discard(ms, mutation) == Ok(ms \ {mutation})

\* Set.__or__, __and__ and __sub__ of collections.abc, each building its
\* result with MutationSet(iterable).
union(ms, other, sd) == MutationSetInit(ms \cup other, FALSE, sd)

intersection(ms, other, sd) == MutationSetInit(ms \cap other, FALSE, sd)

difference(ms, other, sd) == MutationSetInit(ms \ other, FALSE, sd)

SetInit ==
    /\ seed \in SetSeeds
    /\ variants = <<>>
    /\ last = [op |-> "none", err |-> "none"]
    /\ mset = {}
    /\ mlast = IdleLast
    /\ app = IdleApp
    /\ string = NoneSeq
    /\ diff = IdleDiff
    /\ ids = <<>>
    /\ round = IdleRound
    /\ library = IdleLibrary

\* The set and the record of the call after an operation ended as r; a call
\* that raised leaves the set as it was.
SetReturn(op, given, r) ==
    /\ mset' = IF r.ok THEN r.val ELSE mset
    /\ mlast' = [op |-> op, ok |-> r.ok, given |-> given]
    /\ UNCHANGED <<seed, variants, last, app, string, diff, ids, round, library>>

Construct(mutations, aggregate) ==
    /\ mlast.op = "none"
    /\ SetReturn("MutationSet", mutations, MutationSetInit(mutations, aggregate, seed))

Add(mutation) ==
    /\ Built
    /\ Cardinality(mset \cup {mutation}) <= MaxSetSize
    /\ SetReturn("add", {}, add(mset, mutation))

Discard(mutation) ==
    /\ Built
    /\ SetReturn("discard", {}, discard(mset, mutation))

Union(other) ==
    /\ Built
    /\ Cardinality(mset \cup other) <= MaxSetSize
    /\ SetReturn("union", {}, union(mset, other, seed))

Intersection(other) ==
    /\ Built
    /\ SetReturn("intersection", {}, intersection(mset, other, seed))

Difference(other) ==
    /\ Built
    /\ SetReturn("difference", {}, difference(mset, other, seed))

SetNext ==
    \/ \E mutations \in SetLists, aggregate \in BOOLEAN : Construct(mutations, aggregate)
    \/ \E mutation \in SetMuts : Add(mutation)
    \/ \E mutation \in SetMuts : Discard(mutation)
    \/ \E other \in Operands : Union(other)
    \/ \E other \in Operands : Intersection(other)
    \/ \E other \in Operands : Difference(other)

SetSpec == SetInit /\ [][SetNext]_vars

-----------------------------------------------------------------------------
(* One application: a MutationSet that fits a base sequence is applied to  *)
(* it by get_variant_str.                                                  *)

\* The rule of the specification for edits on a base sequence: every
\* reference equals base[position : position + width], and an insertion sits
\* at most at the length of the base.
ValidOn(base, ms) ==
    \A m \in ms :
        /\ Slice(base, m.position, m.position + initial_width(m)) = m.ref
        /\ is_insertion(m) => m.position <= Len(base)

\* The Mutations whose reference is found in base.
FittingMuts(base) == {m \in Muts : ValidOn(base, {m})}

\* The MutationSets applied to base: they pass the constructor and fit base.
FittingSets(base) ==
    {ms \in SetsUpTo(FittingMuts(base), MaxSetSize) :
        check_unique_mutation_positions(ms)}

ApplyInit ==
    /\ seed \in Seeds
    /\ variants = <<>>
    /\ last = [op |-> "none", err |-> "none"]
    /\ mset = {}
    /\ mlast = IdleLast
    /\ \E base \in Bases : \E ms \in FittingSets(base) :
          app = [base |-> base, muts |-> ms, done |-> FALSE, out |-> Ok(<<>>)]
    /\ string = NoneSeq
    /\ diff = IdleDiff
    /\ ids = <<>>
    /\ round = IdleRound
    /\ library = IdleLibrary

GetVariantStr ==
    /\ ~app.done
    /\ app' = [app EXCEPT !.done = TRUE,
                          !.out = get_variant_str(app.muts, app.base, seed)]
    /\ UNCHANGED <<seed, variants, last, mset, mlast, string, diff, ids, round, library>>

ApplyNext == GetVariantStr

ApplySpec == ApplyInit /\ [][ApplyNext]_vars

-----------------------------------------------------------------------------
(* Round trips: a Mutation or a MutationSet is formatted, and the string   *)
(* is parsed back.                                                         *)

\* The Mutations formatted alone: any position up to MaxTextPos, any
\* reference, replacement and order.
TextMuts ==
    [position : 0..MaxTextPos, ref : SeqsUpTo(Residues, MaxWidth),
     alt : Alts, order : 0..MaxOrder]

\* The MutationSets formatted: a single Mutation, or a set of the Mutations
\* of the set operations that passes the constructor.
TextSets ==
    {{m} : m \in TextMuts}
    \cup {ms \in SetLists : check_unique_mutation_positions(ms)}

TextInit ==
    /\ seed \in SetSeeds
    /\ variants = <<>>
    /\ last = [op |-> "none", err |-> "none"]
    /\ mset \in TextSets
    /\ mlast = IdleLast
    /\ app = IdleApp
    /\ string = NoneSeq
    /\ diff = IdleDiff
    /\ ids = <<>>
    /\ round = IdleRound
    /\ library = IdleLibrary

\* The string and the record of the call after a formatting or a parse.
TextReturn(op, s, r) ==
    /\ string' = s
    /\ mlast' = [op |-> op, ok |-> r.ok, given |-> IF r.ok THEN r.val ELSE {}]
    /\ UNCHANGED <<seed, variants, last, mset, app, diff, ids, round, library>>

\* The result of Mutation.from_string as a set of one Mutation.
AsSet(r) == IF r.ok THEN Ok({r.val}) ELSE [ok |-> FALSE, val |-> {}]

\* str(mutation) of the single member of the set
MutationStr(m) ==
    /\ mset = {m}
    /\ TextReturn("Mutation.__str__", Some(mutation_str(m)), Ok({}))

\* str(mutationset)
SetStr == TextReturn("MutationSet.__str__", Some(set_str(mset, seed)), Ok({}))

MutationFromString(zero_indexed) ==
    /\ string.some
    /\ TextReturn("Mutation.from_string", string,
                  AsSet(mutation_from_string(string.val, zero_indexed)))

SetFromString(zero_indexed) ==
    /\ string.some
    /\ TextReturn("MutationSet.from_string", string,
                  set_from_string(string.val, zero_indexed, seed))

TextNext ==
    \/ \E m \in TextMuts : MutationStr(m)
    \/ SetStr
    \/ \E zero_indexed \in BOOLEAN : MutationFromString(zero_indexed)
    \/ \E zero_indexed \in BOOLEAN : SetFromString(zero_indexed)

TextSpec == TextInit /\ [][TextNext]_vars

\* The characters of the strings handed to Mutation.from_string: a residue,
\* digits, the marks of the notation, and a character of no meaning in it.
TextChars == {"A", "0", "1", ">", "[", "]", "-", "x"}

\* Mutation.from_string on any string of these characters up to MaxTextLen.
ParseInit ==
    /\ seed \in {sd \in SetSeeds : sd.insFirst}
    /\ variants = <<>>
    /\ last = [op |-> "none", err |-> "none"]
    /\ mset = {}
    /\ mlast = IdleLast
    /\ app = IdleApp
    /\ string \in {Some(t) : t \in SeqsUpTo(TextChars, MaxTextLen)}
    /\ diff = IdleDiff
    /\ ids = <<>>
    /\ round = IdleRound
    /\ library = IdleLibrary

ParseNext == \E zero_indexed \in BOOLEAN : MutationFromString(zero_indexed)

ParseSpec == ParseInit /\ [][ParseNext]_vars

-----------------------------------------------------------------------------
(* One parse_mutations call between two Variants that materialize to the   *)
(* sequences self and other.                                               *)

\* The sequences of the test of parse_mutations.
TestSequences == {<<"M", "A", "G", "V">>, <<"M", "A", "V", "G">>}

DiffSequences == SeqsUpTo(Residues, MaxLen) \cup TestSequences

DiffInit ==
    /\ seed \in SetSeeds
    /\ variants = <<>>
    /\ last = [op |-> "none", err |-> "none"]
    /\ mset = {}
    /\ mlast = IdleLast
    /\ app = IdleApp
    /\ string = NoneSeq
    /\ ids = <<>>
    /\ round = IdleRound
    /\ library = IdleLibrary
    /\ \E a, b \in DiffSequences : diff = [IdleDiff EXCEPT !.self = a, !.other = b]

DiffReturn(query, subject, r) ==
    /\ diff' = [diff EXCEPT !.done = TRUE, !.query = query, !.subject = subject,
                            !.out = r]
    /\ UNCHANGED <<seed, variants, last, mset, mlast, app, string, ids, round, library>>

\* self.parse_mutations(other, expect_indels=False, aggregate_indels=aggregate)
ParseMutations(aggregate) ==
    /\ ~diff.done
    /\ IF Len(diff.self) # Len(diff.other)
       THEN DiffReturn(<<>>, <<>>, [ok |-> FALSE, val |-> {}])
       ELSE DiffReturn(diff.self, diff.other,
                parse_mutations(diff.self, diff.other, aggregate, seed))

\* self.parse_mutations(other, expect_indels=True, aggregate_indels=aggregate)
\* when the aligner returns alignment
ParseMutationsIndels(alignment, aggregate) ==
    /\ ~diff.done
    /\ DiffReturn(alignment[1], alignment[2],
           parse_mutations(alignment[1], alignment[2], aggregate, seed))

\* The lineage of self alone, after parse_mutations has called str(self).
SelfAlone == str(<<NewRoot(diff.self)>>, 1).vs

\* self.propegate(mutations) with the MutationSet that parse_mutations
\* returned
PropegateParsed ==
    /\ diff.done
    /\ diff.out.ok
    /\ variants = <<>>
    /\ ReturnNamed("propegate",
           VariantInit(SelfAlone, 1, [malformed |-> FALSE, muts |-> diff.out.val]),
           NoneSeq)

DiffNext ==
    \/ \E aggregate \in BOOLEAN : ParseMutations(aggregate)
    \/ \E alignment \in Alignments(diff.self, diff.other), aggregate \in BOOLEAN :
          ParseMutationsIndels(alignment, aggregate)
    \/ PropegateParsed

DiffSpec == DiffInit /\ [][DiffNext]_vars

-----------------------------------------------------------------------------
(* Variants with and without an id: roots and children are constructed,    *)
(* and hashed.                                                             *)

\* The ids of the test of __hash__, and None.
HashIds == {NoneSeq, Some(<<"t", "e", "s", "t">>), Some(<<"t", "e", "s", "t", "2">>)}

\* The mutations argument of the constructors: None, or one Mutation at 0.
HashArgs ==
    {g \in GivenArgs :
        /\ ~g.malformed
        /\ Cardinality(g.muts) <= 1
        /\ \A m \in g.muts : m.position = 0 /\ Len(m.ref) <= 1 /\ ~is_deletion(m)}

HashInit ==
    /\ seed \in {sd \in LineageSeeds : sd.lowFirst}
    /\ variants = <<>>
    /\ last = [op |-> "none", err |-> "none"]
    /\ mset = {}
    /\ mlast = IdleLast
    /\ app = IdleApp
    /\ string = NoneSeq
    /\ diff = IdleDiff
    /\ ids = <<>>
    /\ round = IdleRound
    /\ library = IdleLibrary

\* Variant(sequence, mutations=given, id=id)
NewVariant(sequence, given, id) ==
    /\ Len(variants) < MaxVariants
    /\ ReturnNamed("Variant", RootInit(variants, sequence, given), id)

\* parent.propegate(mutations=given, id=id)
PropegateNamed(parent, given, id) ==
    /\ Len(variants) < MaxVariants
    /\ ReturnNamed("propegate", VariantInit(variants, parent, given), id)

\* The roots of the tests of __eq__: Variant('MAGV'),
\* Variant('MAMV', mutations='M3G'), Variant('MAGV', mutations='A2[TM]').
TestRoots ==
    {[sequence |-> <<"M", "A", "G", "V">>, mutations |-> NoneSeq],
     [sequence |-> <<"M", "A", "M", "V">>, mutations |-> Some(<<"M", "3", "G">>)],
     [sequence |-> <<"M", "A", "G", "V">>,
      mutations |-> Some(<<"A", "2", "[", "T", "M", "]">>)]}

\* The mutations argument of the constructor when it is a string or None.
GivenString(r) ==
    [malformed |-> ~r.ok, muts |-> r.val]

GivenOf(mutations) ==
    IF ~mutations.some THEN [malformed |-> FALSE, muts |-> {}]
    ELSE GivenString(set_from_string(mutations.val, FALSE, seed))

\* Variant(sequence, mutations=mutations) with mutations a string or None
NewVariantFromString(sequence, mutations) ==
    /\ Len(variants) < MaxVariants
    /\ ReturnNamed("Variant", RootInit(variants, sequence, GivenOf(mutations)), NoneSeq)

\* v == other
Equals(v, other) == ReturnNamed("eq", StrEnded(eq(variants, v, other)), NoneSeq)

\* hash(v)
HashOf(v) == ReturnNamed("hash", StrEnded(variant_hash(variants, ids, v)), NoneSeq)

HashNext ==
    \/ \E sequence \in RootSequences, given \in HashArgs, id \in HashIds :
          NewVariant(sequence, given, id)
    \/ \E parent \in Ids, given \in HashArgs, id \in HashIds :
          PropegateNamed(parent, given, id)
    \/ \E v \in Ids : HashOf(v)

HashSpec == HashInit /\ [][HashNext]_vars

\* Variants with and without an id, the roots of the tests among them, are
\* constructed and compared.
EqNext ==
    \/ \E test \in TestRoots : NewVariantFromString(test.sequence, test.mutations)
    \/ \E sequence \in RootSequences, given \in HashArgs :
          \E id \in {NoneSeq, Some(<<"t", "e", "s", "t">>)} :
            NewVariant(sequence, given, id)
    \/ \E parent \in Ids, given \in HashArgs :
          \E id \in {NoneSeq, Some(<<"t", "e", "s", "t">>)} :
            PropegateNamed(parent, given, id)
    \/ \E v, other \in Ids : Equals(v, other)

EqSpec == HashInit /\ [][EqNext]_vars

-----------------------------------------------------------------------------
(* One round of a campaign (src/aide/campaign/round.py).  The database     *)
(* keeps the status of the round; the round reads and writes it.           *)

\* What the database answers when a round is added: the round waits for
\* the round before it, or is ready.
AddedStatuses == {"not ready", "ready"}

\* BaseRound.status
status(r) == IF ~r.added THEN "unknown" ELSE r.status

\* The end of a method of the round: what it leaves and how it ended.
RoundEnded(r, op, err) == [r EXCEPT !.op = op, !.err = err]

\* BaseRound.add_to_db(), the database answering answer
add_to_db(r, answer) ==
    RoundEnded([r EXCEPT !.added = TRUE, !.status = answer, !.start_time = FALSE,
                         !.end_time = FALSE, !.notes = FALSE], "add_to_db", "none")

\* The database makes a waiting round ready when the round before it is
\* committed.
made_ready(r) == RoundEnded([r EXCEPT !.status = "ready"], "made_ready", "none")

\* A commit that does not look at the status.
CommitAnyStatus(r) ==
    IF ~r.added THEN RoundEnded(r, "commit", "RoundStatusError")
    ELSE RoundEnded([r EXCEPT !.status = "complete"], "commit", "none")

\* BaseRound.commit()
commit(r) ==
    IF status(r) # "labeled" THEN RoundEnded(r, "commit", "RoundStatusError")
    ELSE RoundEnded([r EXCEPT !.status = "complete"], "commit", "none")

\* BaseRound.reset(); db.reset_round sets the status to "ready"
reset(r) ==
    IF status(r) = "unknown" THEN RoundEnded(r, "reset", "RoundStatusError")
    ELSE RoundEnded([r EXCEPT !.status = "ready", !.putative_library = FALSE,
                              !.library_for_exp = FALSE], "reset", "none")

\* BaseRound.library_generation(); empty: the generator returns no variant
library_generation(r, empty) ==
    IF status(r) = "ready"
    THEN IF empty THEN RoundEnded(r, "library_generation", "EmptyLibraryException")
         ELSE RoundEnded([r EXCEPT !.putative_library = TRUE, !.status = "generated",
                                   !.start_time = TRUE],
                         "library_generation", "none")
    ELSE IF status(r) = "generated"
    THEN RoundEnded(r, "library_generation", "RoundStatusWarning")
    ELSE RoundEnded(r, "library_generation", "RoundStatusError")

\* BaseRound.library_selection(); empty: the library recovered from the
\* database has no variant; taken: the loop over the selected variants
\* finds one that another round holds.
library_selection(r, empty, taken) ==
    IF status(r) = "generated"
    THEN IF ~r.putative_library /\ empty
         THEN RoundEnded(r, "library_selection", "EmptyLibraryException")
         ELSE IF taken
         THEN RoundEnded([r EXCEPT !.putative_library = TRUE, !.library_for_exp = TRUE],
                         "library_selection", "RoundStatusError")
         ELSE RoundEnded([r EXCEPT !.putative_library = TRUE, !.library_for_exp = TRUE,
                                   !.status = "selected"], "library_selection", "none")
    ELSE IF status(r) = "selected"
    THEN RoundEnded(r, "library_selection",
                    IF empty THEN "EmptyLibraryException" ELSE "RoundStatusWarning")
    ELSE RoundEnded(r, "library_selection", "RoundStatusError")

\* BaseRound.set_labels(labels, force, notes); found: every id of labels
\* is an id of the library for experiment; notes: notes are given
set_labels(r, force, found, notes) ==
    IF status(r) = "selected" \/ (status(r) = "labeled" /\ force)
    THEN IF ~(r.library_for_exp /\ found)
         THEN RoundEnded(r, "set_labels", "KeyError")
         ELSE RoundEnded([r EXCEPT !.status = "labeled", !.end_time = TRUE,
                                   !.notes = notes], "set_labels", "none")
    ELSE IF status(r) = "labeled"
    THEN RoundEnded(r, "set_labels", "RoundStatusWarning")
    ELSE RoundEnded(r, "set_labels", "RoundStatusError")

RoundInit ==
    /\ seed \in {sd \in SetSeeds : sd.insFirst}
    /\ variants = <<>>
    /\ last = [op |-> "none", err |-> "none"]
    /\ mset = {}
    /\ mlast = IdleLast
    /\ app = IdleApp
    /\ string = NoneSeq
    /\ diff = IdleDiff
    /\ ids = <<>>
    /\ round = IdleRound
    /\ library = IdleLibrary

RoundReturn(r) ==
    /\ round' = r
    /\ UNCHANGED <<seed, variants, last, mset, mlast, app, string, diff, ids, library>>

AddToDb(answer) == RoundReturn(add_to_db(round, answer))

MadeReady == status(round) = "not ready" /\ RoundReturn(made_ready(round))

\* BaseRound.from_db(database, round_idx): the round is loaded again, its
\* libraries are not.
FromDb ==
    /\ round.added
    /\ RoundReturn(RoundEnded([round EXCEPT !.putative_library = FALSE,
                                            !.library_for_exp = FALSE], "from_db", "none"))

Commit == RoundReturn(commit(round))

Reset == RoundReturn(reset(round))

LibraryGeneration(empty) == RoundReturn(library_generation(round, empty))

LibrarySelection(empty, taken) == RoundReturn(library_selection(round, empty, taken))

SetLabels(force, found, notes) == RoundReturn(set_labels(round, force, found, notes))

RoundNext ==
    \/ \E answer \in AddedStatuses : AddToDb(answer)
    \/ MadeReady
    \/ FromDb
    \/ Commit
    \/ Reset
    \/ \E empty \in BOOLEAN : LibraryGeneration(empty)
    \/ \E empty \in BOOLEAN, taken \in BOOLEAN : LibrarySelection(empty, taken)
    \/ \E force \in BOOLEAN, found \in BOOLEAN, notes \in BOOLEAN :
          SetLabels(force, found, notes)

RoundSpec == RoundInit /\ [][RoundNext]_vars

-----------------------------------------------------------------------------
(* One Library (src/aide/base/library.py) of variants with distinct ids,   *)
(* each with its VariantLabels (src/aide/base/labels.py).  A label is its  *)
(* name and the round it was measured in, if any.                          *)

NoRound == [some |-> FALSE, val |-> 0]

LabelNames == {"a", "b"}

\* The labels added to the variants, and the rounds asked for.
Labels ==
    [name : LabelNames,
     round_idx : {NoRound} \cup {Some(i) : i \in 1..(MaxRound - 1)}]

Rounds == {NoRound} \cup {Some(i) : i \in 1..MaxRound}

\* The names asked for: None, or an iterable of names (a str is read as
\* the list of that one name).
Names == {NoneSet} \cup {Some(S) : S \in SUBSET LabelNames}

\* VariantLabels.has_labels(names, round_idx)
has_labels(labels, names, round_idx) ==
    IF ~names.some
    THEN Cardinality({label \in labels :
                        label.round_idx = round_idx /\ round_idx.some}) > 0
    ELSE \A name \in names.val :
            \E label \in labels :
                /\ label.name = name
                /\ IF round_idx.some THEN label.round_idx = round_idx ELSE TRUE

\* Library.get_labeled and Library.get_unlabeled: the variants of the
\* Library returned.
get_labeled(lib, names, round_idx) ==
    {v \in 1..Len(lib) : has_labels(lib[v], names, round_idx)}

get_unlabeled(lib, names, round_idx) ==
    {v \in 1..Len(lib) : ~has_labels(lib[v], names, round_idx)}

LibraryInit ==
    /\ seed \in {sd \in SetSeeds : sd.insFirst}
    /\ variants = <<>>
    /\ last = [op |-> "none", err |-> "none"]
    /\ mset = {}
    /\ mlast = IdleLast
    /\ app = IdleApp
    /\ string = NoneSeq
    /\ diff = IdleDiff
    /\ ids = <<>>
    /\ round = IdleRound
    /\ library = [IdleLibrary EXCEPT !.labels = [v \in 1..MaxLibrary |-> {}]]

LibraryReturn(lib) ==
    /\ library' = lib
    /\ UNCHANGED <<seed, variants, last, mset, mlast, app, string, diff, ids, round>>

\* library[v].labels.add(label)
AddLabel(v, label) ==
    LibraryReturn([library EXCEPT !.labels[v] = @ \cup {label}, !.op = "add",
                                  !.names = NoneSet, !.round_idx = NoRound, !.out = {}])

GetLabeled(names, round_idx) ==
    LibraryReturn([library EXCEPT !.op = "get_labeled", !.names = names,
                                  !.round_idx = round_idx,
                                  !.out = get_labeled(library.labels, names, round_idx)])

GetUnlabeled(names, round_idx) ==
    LibraryReturn([library EXCEPT !.op = "get_unlabeled", !.names = names,
                                  !.round_idx = round_idx,
                                  !.out = get_unlabeled(library.labels, names, round_idx)])

LibraryNext ==
    \/ \E v \in 1..MaxLibrary, label \in Labels : AddLabel(v, label)
    \/ \E names \in Names, round_idx \in Rounds : GetLabeled(names, round_idx)
    \/ \E names \in Names, round_idx \in Rounds : GetUnlabeled(names, round_idx)

LibrarySpec == LibraryInit /\ [][LibraryNext]_vars

-----------------------------------------------------------------------------
(* One Mutation applied to one Variant, by Mutation.get_variant_str and by *)
(* get_variant_str of the MutationSet that holds the Mutation alone.       *)

\* The end of Mutation.get_variant_str, once str(variant) ended as s and
\* base_sequence as b.
MutationApplied(m, s, b) ==
    IF ~s.out.ok \/ ~b.out.ok THEN Step(b.vs, Err)
    ELSE Step(b.vs, mutation_apply(m, s.out.val, b.out.val))

\* Mutation.get_variant_str, once _check_validity ended as c; str(variant)
\* is called for a reference of one residue only.
MutationListed(m, v, s) == MutationApplied(m, s, base_sequence(s.vs, v))

MutationChecked(m, v, c) ==
    IF c.err # "none" THEN Step(c.vs, Err)
    ELSE MutationListed(m, v,
             IF initial_width(m) = 1 THEN str(c.vs, v) ELSE Step(c.vs, Ok(<<>>)))

\* Mutation.get_variant_str(variant)
mutation_get_variant_str(vs, v, m) ==
    MutationChecked(m, v, mutation_check_validity(vs, v, m))

\* The end of MutationSet.get_variant_str, once _check_validity ended as c
\* and base_sequence as b.
SetApplied(ms, c, b) ==
    IF c.err # "none" \/ ~b.out.ok THEN Step(b.vs, Err)
    ELSE Step(b.vs, get_variant_str(ms, b.out.val, seed))

\* MutationSet.get_variant_str(variant): the check is skipped when the set
\* equals the variant's own.
set_get_variant_str(vs, v, ms) ==
    IF vs[v].mutations = ms
    THEN SetApplied(ms, Ended(vs, "none"), base_sequence(vs, v))
    ELSE SetApplied(ms, check_validity(vs, v, IterSeq(ms, seed), 1), base_sequence(vs, v))

\* The Variant and the Mutations of TestMutation: MAGV with A2M, A2[-],
\* [AG]2[--], A2[AT] and >2T.
TestSingles ==
    {Mutation(1, <<"A">>, <<"M">>, 0), Mutation(1, <<"A">>, <<Gap>>, 0),
     Mutation(1, <<"A", "G">>, <<Gap, Gap>>, 0), Mutation(1, <<"A">>, <<"A", "T">>, 0),
     Mutation(1, <<>>, <<"T">>, 0)}

\* A root Variant over base that was given the edits own.
Edited(base, own) == [NewRoot(base) EXCEPT !.mutations = own]

\* The Variants a Mutation is applied to, each with the Mutations applied
\* to it: a root with at most MaxOwnEdits edits that fit its base and any
\* Mutation, and the Variant of the tests with the Mutations of the tests.
OwnEdits(base) == SetsUpTo(FittingMuts(base), MaxOwnEdits)

SingleCases ==
    UNION {{<<Edited(base, own), m>> : own \in OwnEdits(base), m \in Muts} :
             base \in Bases}
    \cup {<<NewRoot(<<"M", "A", "G", "V">>), m>> : m \in TestSingles}

IdleSingle ==
    [base |-> <<>>, muts |-> {}, done |-> FALSE, out |-> Ok(<<>>),
     set_done |-> FALSE, set_out |-> Ok(<<>>)]

SingleInit ==
    /\ seed \in SetSeeds
    /\ \E case \in SingleCases :
          /\ check_unique_mutation_positions(case[1].mutations)
          /\ variants = <<case[1]>>
          /\ mset = {case[2]}
          /\ app = [IdleSingle EXCEPT !.base = case[1].base_sequence.val,
                                      !.muts = case[1].mutations]
    /\ last = [op |-> "Variant", err |-> "none"]
    /\ mlast = IdleLast
    /\ string = NoneSeq
    /\ diff = IdleDiff
    /\ ids = <<NoneSeq>>
    /\ round = IdleRound
    /\ library = IdleLibrary

\* The lineage with the caches the call filled, and the result in app.
SingleReturn(r, result) ==
    /\ variants' = r.vs
    /\ app' = result
    /\ UNCHANGED <<seed, last, mset, mlast, string, diff, ids, round, library>>

\* m.get_variant_str(v)
MutationGetVariantStr(m) ==
    /\ ~app.done
    /\ SingleReturn(mutation_get_variant_str(variants, 1, m),
           [app EXCEPT !.done = TRUE,
                       !.out = mutation_get_variant_str(variants, 1, m).out])

\* MutationSet([m]).get_variant_str(v)
SetGetVariantStr(m) ==
    /\ ~app.set_done
    /\ SingleReturn(set_get_variant_str(variants, 1, {m}),
           [app EXCEPT !.set_done = TRUE,
                       !.set_out = set_get_variant_str(variants, 1, {m}).out])

SingleNext ==
    \/ \E m \in mset : MutationGetVariantStr(m)
    \/ \E m \in mset : SetGetVariantStr(m)

SingleSpec == SingleInit /\ [][SingleNext]_vars

-----------------------------------------------------------------------------
(* What the lineage claims speak of *)

\* The sequence of v with every cache discarded: its edit set applied to its
\* literal base, or to the sequence of its parent.
RECURSIVE Materialized(_, _)
MaterializedFrom(vs, v, base) ==
    IF base.ok THEN get_variant_str(vs[v].mutations, base.val, seed) ELSE Err

Materialized(vs, v) ==
    MaterializedFrom(vs, v,
        IF vs[v].base_sequence.some THEN Ok(vs[v].base_sequence.val)
        ELSE Materialized(vs, vs[v].parent))

\* The variants below v in the lineage.
RECURSIVE Descendants(_, _)
Descendants(vs, v) ==
    vs[v].children \cup UNION {Descendants(vs, c) : c \in vs[v].children}

\* The literal base of v, or the sequence of its parent.
BaseOf(vs, v) ==
    IF vs[v].base_sequence.some THEN Ok(vs[v].base_sequence.val)
    ELSE Materialized(vs, vs[v].parent)

(* C1: add_mutations on a Variant that has a child fails and leaves the    *)
(* variant's edit set, child set and materialized sequence as they were.   *)
C1_ParentImmutable ==
    [][\A v \in Ids : \A mutations \in AddArgs :
          (variants[v].children # {} /\ last'.op = "add_mutations"
              /\ AddMutations(v, mutations))
          => /\ last'.err # "none"
             /\ variants'[v].mutations = variants[v].mutations
             /\ variants'[v].children = variants[v].children
             /\ Materialized(variants', v) = Materialized(variants, v)]_vars

C1_Witness ==
    /\ last.op = "add_mutations"
    /\ last.err = "immutable"
    /\ \E v \in Ids : variants[v].children # {} /\ variants[v].mutations # {}

(* C2: whatever the caches hold, str(v) returns the sequence obtained with *)
(* the caches discarded (the current edit set applied to the current       *)
(* base), and a second str(v) returns the same value as the first.         *)
C2_CacheCoherent ==
    \A v \in Ids :
        /\ str(variants, v).out = Materialized(variants, v)
        /\ str(str(variants, v).vs, v).out = str(variants, v).out

\* A successful add_mutations has just left a cached sequence behind that
\* was computed from the earlier edit set.
C2_Witness ==
    /\ last.op = "add_mutations"
    /\ last.err = "none"
    /\ \E v \in Ids :
          /\ variants[v].str.some
          /\ variants[v].hash.val # Hash(variants[v].mutations)
          /\ Materialized(variants, v).ok
          /\ Materialized(variants, v).val # variants[v].str.val

(* C3: a propegate that fails because its edits are malformed, conflict    *)
(* or do not validate leaves the parent's child set as it was.             *)
C3_FailedChildLeavesParent ==
    [][\A parent \in Ids : \A given \in GivenArgs :
          (last'.err \in {"malformed", "conflict", "invalid"} /\ last'.op = "propegate"
              /\ Propegate(parent, given))
          => variants'[parent].children = variants[parent].children]_vars

(* C4: once the child of the root has been detached and the root has no    *)
(* child, add_mutations on it with edits that validate against its base    *)
(* (and fit its own edits) succeeds; while a child is attached it fails.    *)
C4_MutableAgain ==
    [][\A mutations \in AddArgs :
          /\ ( /\ Len(variants) >= 2
               /\ variants[1].children = {}
               /\ last'.op = "add_mutations"
               /\ check_unique_mutation_positions(variants[1].mutations \cup mutations)
               /\ BaseOf(variants, 1).ok
               /\ ValidOn(BaseOf(variants, 1).val, variants[1].mutations \cup mutations)
               /\ AddMutations(1, mutations) )
             => last'.err = "none"
          /\ (variants[1].children # {} /\ last'.op = "add_mutations"
                 /\ AddMutations(1, mutations))
             => last'.err # "none"]_vars

(* C5: cut_parent on a variant with a parent leaves it without a parent,   *)
(* removes it and only it from the parent's child set, and leaves its      *)
(* materialized sequence and that of each of its descendants as it was.    *)
C5_CutParent ==
    [][\A c \in Ids :
          (variants[c].parent # 0 /\ last'.op = "cut_parent" /\ CutParent(c))
          => /\ variants'[c].parent = 0
             /\ variants'[variants[c].parent].children
                    = variants[variants[c].parent].children \ {c}
             /\ \A d \in {c} \cup Descendants(variants, c) :
                    Materialized(variants', d) = Materialized(variants, d)]_vars

(* C6: cut_children on a node with children leaves it without children and *)
(* mutable, and each former child without parent, its literal base being   *)
(* its former materialized sequence.                                       *)
C6_CutChildren ==
    [][\A v \in Ids :
          (variants[v].children # {} /\ last'.op = "cut_children" /\ CutChildren(v))
          => /\ variants'[v].children = {}
             /\ mutatable(variants', v)
             /\ \A c \in variants[v].children :
                    /\ variants'[c].parent = 0
                    /\ Materialized(variants, c).ok
                    /\ variants'[c].base_sequence
                          = Some(Materialized(variants, c).val)]_vars

-----------------------------------------------------------------------------
(* What the set claims speak of *)

\* The sequence positions a non-insertion replaces.
Replaced(m) ==
    IF is_insertion(m) THEN {}
    ELSE m.position..(m.position + initial_width(m) - 1)

\* No sequence position is replaced by two edits.
NoOverlap(ms) ==
    \A a, b \in ms : a # b => Replaced(a) \cap Replaced(b) = {}

\* No insertion sits at an interior position of an edit of several residues.
NoInsertionInside(ms) ==
    \A a, b \in ms :
        is_insertion(a) => a.position \notin (Replaced(b) \ {b.position})

\* Insertions at one position have different orders.
DistinctOrders(ms) ==
    \A a, b \in ms :
        (a # b /\ is_insertion(a) /\ is_insertion(b) /\ a.position = b.position)
        => a.order # b.order

PositionInvariants(ms) ==
    NoOverlap(ms) /\ NoInsertionInside(ms) /\ DistinctOrders(ms)

(* C7: the MutationSet that construction (with or without aggregation of   *)
(* indels), add, discard, union, intersection and difference leave behind  *)
(* replaces no position twice, has no insertion inside an edit of several  *)
(* residues, and has distinct orders among insertions at one position.     *)
C7_SetInvariants == PositionInvariants(mset)

(* C8: the constructor and add accept exactly when the set they are about  *)
(* to hold satisfies the three position invariants; an accepted add leaves *)
(* the set with the new member, a rejected add leaves it as it was.        *)
C8_AcceptExactlyValid ==
    [][/\ mlast'.op = "MutationSet"
          => (mlast'.ok <=> PositionInvariants(mlast'.given))
       /\ mlast'.op = "add"
          => \A mutation \in SetMuts :
                Add(mutation)
                => /\ mlast'.ok <=> PositionInvariants(mset \cup {mutation})
                   /\ mset' = IF mlast'.ok THEN mset \cup {mutation} ELSE mset]_vars

\* add has just rejected a second insertion with the order of a member.
C8_Witness ==
    /\ mlast.op = "add"
    /\ ~mlast.ok
    /\ NoOverlap(mset) /\ NoInsertionInside(mset)
    /\ \E m \in mset : is_insertion(m)

-----------------------------------------------------------------------------
(* What the application claims speak of *)

\* The texts of the insertions of S, by ascending order.
RECURSIVE AscendingText(_)
AscendingText(S) ==
    IF S = {} THEN <<>>
    ELSE LET m == CHOOSE x \in S : \A y \in S : x.order <= y.order
         IN  m.alt \o AscendingText(S \ {m})

InsertionsAt(ms, p) == {m \in ms : is_insertion(m) /\ m.position = p}

\* What the residue at position p of base becomes: the replacement of the
\* edit that starts there, nothing inside an edit of several residues, the
\* residue itself otherwise.
Becomes(ms, base, p) ==
    IF \E m \in ms : ~is_insertion(m) /\ m.position = p
    THEN remove_gaps((CHOOSE m \in ms : ~is_insertion(m) /\ m.position = p).alt)
    ELSE IF \E m \in ms : p \in Replaced(m)
    THEN <<>>
    ELSE <<base[p + 1]>>

\* The sequence the edits describe, from position p on.
RECURSIVE Described(_, _, _)
Described(ms, base, p) ==
    IF p > Len(base) THEN <<>>
    ELSE AscendingText(InsertionsAt(ms, p))
         \o (IF p < Len(base) THEN Becomes(ms, base, p) ELSE <<>>)
         \o Described(ms, base, p + 1)

(* C9: get_variant_str of a set that fits the base returns the sequence    *)
(* the edits describe, whatever the iteration order of the set, also with  *)
(* an insertion at the start position of an edit of several residues.      *)
C9_AppliesAsDescribed ==
    app.done => app.out = Ok(Described(app.muts, app.base, 0))

\* The slots of aa_list around position p, as sequences without gaps.
Before(aa_list, p) == remove_gaps(Join(SubSeq(aa_list, 1, p)))

After(aa_list, p) == remove_gaps(Join(SubSeq(aa_list, p + 2, Len(aa_list))))

\* The insertions at p stand in slot p in ascending order before what the
\* slot held (sub), and so in the sequence returned.
InsertedInOrder(p, text, sub, final, out) ==
    /\ Len(final) > p
    /\ final[p + 1] = text \o sub
    /\ out = Ok((Before(final, p) \o text) \o (remove_gaps(sub) \o After(final, p)))

SlotAfterSubstitutions(subs, p) == IF p < Len(subs) THEN subs[p + 1] ELSE <<>>

(* C10: several insertions at one position appear in the result side by    *)
(* side in ascending order, immediately before what the base residue at    *)
(* that position became, or at the very end when the position is the       *)
(* length of the base.                                                     *)
C10_InsertionsAscending ==
    app.done =>
        \A p \in 0..Len(app.base) :
            Cardinality(InsertionsAt(app.muts, p)) >= 2 =>
                /\ after_insertions(app.muts, app.base, seed).ok
                /\ p = Len(app.base)
                   => Len(after_insertions(app.muts, app.base, seed).val) = p + 1
                /\ InsertedInOrder(p, AscendingText(InsertionsAt(app.muts, p)),
                      SlotAfterSubstitutions(
                          after_substitutions(app.muts, app.base, seed).val, p),
                      after_insertions(app.muts, app.base, seed).val, app.out)

\* Two insertions and a substitution at one position have been applied.
C10_Witness ==
    /\ app.done
    /\ app.out.ok
    /\ \E p \in 0..(Len(app.base) - 1) :
          /\ Cardinality(InsertionsAt(app.muts, p)) = 2
          /\ \E m \in app.muts : ~is_insertion(m) /\ m.position = p

-----------------------------------------------------------------------------
(* Acceptance and failure of the Variant operations *)

\* The fields of a Variant that are not caches.
Held(vs, u) ==
    [mutations |-> vs[u].mutations, base_sequence |-> vs[u].base_sequence,
     parent |-> vs[u].parent, children |-> vs[u].children]

(* C11: add_mutations on a mutable variant whose own edits fit its base,   *)
(* with edits that do not conflict in position with them, accepts exactly  *)
(* when every new edit's reference equals base[position : position+width]  *)
(* and every new insertion's position is at most the length of the base;   *)
(* so does the creation of a child, whose base is its parent's sequence.   *)
C11_AcceptsExactlyValid ==
    [][/\ last'.op = "add_mutations"
          => \A v \in Ids : \A mutations \in AddArgs :
                ( /\ variants[v].children = {}
                  /\ check_unique_mutation_positions(variants[v].mutations \cup mutations)
                  /\ BaseOf(variants, v).ok
                  /\ ValidOn(BaseOf(variants, v).val, variants[v].mutations)
                  /\ AddMutations(v, mutations) )
                => (last'.err = "none"
                      <=> ValidOn(BaseOf(variants, v).val, mutations))
       /\ last'.op = "propegate"
          => \A parent \in Ids : \A given \in GivenArgs :
                ( /\ ~given.malformed
                  /\ check_unique_mutation_positions(given.muts)
                  /\ Materialized(variants, parent).ok
                  /\ Propegate(parent, given) )
                => (last'.err = "none"
                      <=> ValidOn(Materialized(variants, parent).val, given.muts))]_vars

(* C12: an add_mutations that raises and a cut_parent on a variant without *)
(* parent leave the edit set, base, parent link and child set of every     *)
(* variant, and its materialized sequence, exactly as they were.           *)
C12_FailureChangesNothing ==
    [][/\ (last'.op = "add_mutations" /\ last'.err # "none")
          => \A u \in Ids :
                /\ Held(variants', u) = Held(variants, u)
                /\ Materialized(variants', u) = Materialized(variants, u)
       /\ (last'.op = "cut_parent" /\ last'.err = "noparent")
          => \A u \in Ids :
                /\ Held(variants', u) = Held(variants, u)
                /\ Materialized(variants', u) = Materialized(variants, u)]_vars

\* add_mutations has just rejected an edit whose reference does not match,
\* on a variant that holds an edit already.
C12_Witness ==
    /\ last.op = "add_mutations"
    /\ last.err = "invalid"
    /\ \E v \in Ids : variants[v].mutations # {} /\ variants[v].children = {}

-----------------------------------------------------------------------------
(* What the round-trip claims speak of *)

(* C13: for every Mutation, parsing the string it formats to, 0-indexed,   *)
(* returns a Mutation equal to it in position, reference, replacement and  *)
(* order.                                                                  *)
C13_MutationRoundTrip ==
    [][(mlast.op = "Mutation.__str__" /\ MutationFromString(TRUE))
       => (mlast'.ok /\ mlast'.given = mset)]_vars

(* C14: for every MutationSet that satisfies the position invariants,      *)
(* from_string of its string, 0-indexed, succeeds and returns an equal set. *)
C14_SetRoundTrip ==
    [][(mlast.op = "MutationSet.__str__" /\ PositionInvariants(mset)
          /\ SetFromString(TRUE))
       => (mlast'.ok /\ mlast'.given = mset)]_vars

\* The members of ms by ascending (position, order), ties in any order.
Ascending(srt) ==
    \A i, j \in 1..Len(srt) :
        i < j => \/ srt[i].position < srt[j].position
                 \/ srt[i].position = srt[j].position /\ srt[i].order <= srt[j].order

(* C15: the string of a MutationSet lists its members by ascending         *)
(* (position, order), joined by ';', and is the same under every iteration *)
(* order of the set.                                                       *)
C15_CanonicalString ==
    mlast.op = "MutationSet.__str__" =>
        /\ Ascending(sorted_by_position(mset, seed))
        /\ string = Some(JoinWith(MapStr(sorted_by_position(mset, seed)), <<";">>))
        /\ \A sd \in Seeds : string = Some(set_str(mset, sd))

-----------------------------------------------------------------------------
(* What the parse_mutations claims speak of *)

\* The positions, from 0, at which two sequences of one length differ.
Differing(a, b) == {i \in 0..(Len(a) - 1) : a[i + 1] # b[i + 1]}

Ungapped(query, j) == Cardinality({k \in 1..(j - 1) : query[k] # Gap})

\* The columns just before column j, back to the last one where query is
\* not a gap.
GapsBefore(query, j) ==
    Cardinality({k \in 1..(j - 1) : \A l \in k..(j - 1) : query[l] = Gap})

\* The edit of column j, as the specification of the scan gives it.
ColumnEdit(query, subject, j) ==
    IF query[j] = Gap
    THEN {Mutation(Ungapped(query, j), <<>>, <<subject[j]>>, GapsBefore(query, j))}
    ELSE IF subject[j] = Gap
    THEN {Mutation(Ungapped(query, j), <<query[j]>>, <<Gap>>, 0)}
    ELSE IF query[j] # subject[j]
    THEN {Mutation(Ungapped(query, j), <<query[j]>>, <<subject[j]>>, 0)}
    ELSE {}

-----------------------------------------------------------------------------
(* What the aggregation claim speaks of *)

\* The deletions of a set, and the deletion that follows one without a gap.
Deletions(ms) == {m \in ms : is_deletion(m) /\ ~is_insertion(m)}

FollowedBy(ms, d) ==
    {m \in Deletions(ms) : m.position = d.position + initial_width(d)}

\* The run of contiguous deletions that starts with d, as one deletion.
RECURSIVE RunFrom(_, _)
RunFrom(ms, d) ==
    IF FollowedBy(ms, d) = {} THEN d
    ELSE Mutation(d.position,
                  d.ref \o RunFrom(ms, CHOOSE m \in FollowedBy(ms, d) : TRUE).ref,
                  d.alt, d.order)

DeletionRuns(ms) ==
    {RunFrom(ms, d) : d \in {d \in Deletions(ms) :
                               \A m \in Deletions(ms) : d \notin FollowedBy(ms, m)}}

\* The insertions of one position as one insertion.
RECURSIVE Concatenated(_)
Lowest(I) == CHOOSE m \in I : \A o \in I : m.order <= o.order

Concatenated(I) ==
    IF I = {} THEN <<>> ELSE Lowest(I).alt \o Concatenated(I \ {Lowest(I)})

InsertionGroups(ms) ==
    {Mutation(p, <<>>, Concatenated(InsertionsAt(ms, p)), Lowest(InsertionsAt(ms, p)).order) :
       p \in {m.position : m \in {m \in ms : is_insertion(m)}}}

Aggregation(ms) ==
    (DeletionRuns(ms) \cup InsertionGroups(ms))
      \cup {m \in ms : ~is_insertion(m) /\ ~is_deletion(m)}

-----------------------------------------------------------------------------
(* What the lineage queries are asked *)

\* A query has returned the answer.
Answers(r, answer) == r.out.ok /\ r.out.val = answer

-----------------------------------------------------------------------------
(* What the hash claim speaks of *)

\* Two hashes have been computed and are equal.
SameHash(ha, hb) == ha.out.ok /\ hb.out.ok /\ ha.out.val = hb.out.val

-----------------------------------------------------------------------------
(* What the equality claim speaks of *)

\* The root constructed from sequence and the edits the string describes.
IsTestRoot(v, sequence, mutations) ==
    /\ variants[v].base_sequence = Some(sequence)
    /\ Ok(variants[v].mutations) = set_from_string(mutations, FALSE, seed)

(* C21: two Variants that both materialize compare equal exactly when      *)
(* their materialized sequences are equal, whatever their ids, parents,    *)
(* bases and edits; the root MAGV equals the root MAMV with M3G and        *)
(* differs from the root MAGV with A2[TM].                                 *)
C21_EqualIffSameSequence ==
    \A a, b \in Ids :
        (Materialized(variants, a).ok /\ Materialized(variants, b).ok)
        => /\ eq(variants, a, b).out.ok
           /\ eq(variants, a, b).out.val
                 <=> Materialized(variants, a) = Materialized(variants, b)
           /\ (variants[a] = NewRoot(<<"M", "A", "G", "V">>)
                 /\ IsTestRoot(b, <<"M", "A", "M", "V">>, <<"M", "3", "G">>))
              => eq(variants, a, b).out.val
           /\ (variants[a] = NewRoot(<<"M", "A", "G", "V">>)
                 /\ IsTestRoot(b, <<"M", "A", "G", "V">>,
                                <<"A", "2", "[", "T", "M", "]">>))
              => ~eq(variants, a, b).out.val

\* The three roots of the tests have been constructed and two Variants
\* compared.
C21_Witness ==
    /\ last.op = "eq"
    /\ \E a, b, c \in Ids :
          /\ variants[a].base_sequence = Some(<<"M", "A", "G", "V">>)
          /\ variants[a].mutations = {}
          /\ IsTestRoot(b, <<"M", "A", "M", "V">>, <<"M", "3", "G">>)
          /\ IsTestRoot(c, <<"M", "A", "G", "V">>, <<"A", "2", "[", "T", "M", "]">>)
          /\ \A u \in {a, b, c} : variants[u].str.some

-----------------------------------------------------------------------------
(* What the parsing claim speaks of *)

\* t is one or more characters of C, with or without a bracket before and
\* a bracket after.
Bracketed(t, C) ==
    \E a \in 0..1, b \in 0..1 :
        /\ Len(t) > a + b
        /\ a = 1 => t[1] = "["
        /\ b = 1 => t[Len(t)] = "]"
        /\ \A i \in (a + 1)..(Len(t) - b) : t[i] \in C

IsNumber(t) == t # <<>> /\ \A i \in 1..Len(t) : t[i] \in Digits

\* The whole of t is [order>]?[ref]?pos[alt] with a position that is not
\* negative once shift is taken from it.
Conforms(t, shift) ==
    \E i \in 0..Len(t), j \in 0..Len(t), k \in 0..Len(t) :
        /\ i <= j /\ j < k /\ k < Len(t)
        /\ i = 0 \/ (t[i] = ">" /\ IsNumber(SubSeq(t, 1, i - 1)))
        /\ j = i \/ Bracketed(SubSeq(t, i + 1, j), Upper \cup {">"})
        /\ IsNumber(SubSeq(t, j + 1, k))
        /\ FromDigits(SubSeq(t, j + 1, k)) - shift >= 0
        /\ Bracketed(SubSeq(t, k + 1, Len(t)), Upper \cup {Gap})

(* C22: Mutation.from_string returns a Mutation exactly for a string that  *)
(* as a whole matches [order>]?[ref]?pos[alt] and whose position, less 1   *)
(* unless zero_indexed, is at least 0; for every other string it raises.   *)
C22_ParsesExactlyGrammar ==
    [][\A zero_indexed \in BOOLEAN :
          MutationFromString(zero_indexed)
          => (mlast'.ok <=> Conforms(string.val, IF zero_indexed THEN 0 ELSE 1))]_vars

-----------------------------------------------------------------------------
(* What the round claim speaks of *)

\* The round fails and its status stays.
Refused(r) == r.err # "none" /\ status(r) = status(round)

(* C23: commit succeeds only on a round whose status is "labeled", and     *)
(* then leaves it "complete"; on any other status it raises                *)
(* RoundStatusError and the status stays.  On a "complete" round           *)
(* library_generation, library_selection, set_labels and commit all fail   *)
(* and the status stays; only reset leaves "complete".                     *)
C23_CommitLocksRound ==
    [][/\ Commit
          => IF status(round) = "labeled"
             THEN round'.err = "none" /\ status(round') = "complete"
             ELSE round'.err = "RoundStatusError" /\ status(round') = status(round)
       /\ (status(round) = "complete"
             /\ round'.op \in {"library_generation", "library_selection",
                                "set_labels", "commit"})
          => Refused(round')]_vars

\* A labeled round has been committed, and an operation on the complete
\* round has failed.
C23_Witness ==
    /\ status(round) = "complete"
    /\ round.op \in {"library_generation", "library_selection", "set_labels", "commit"}
    /\ round.err # "none"

-----------------------------------------------------------------------------
(* What the library claim speaks of *)

\* The variant has, for every name asked for, a label of that name (of the
\* round asked for, when one is); with nothing asked for, it has a label.
Matches(labels, names, round_idx) ==
    IF names.some
    THEN \A name \in names.val :
            \E label \in labels :
                label.name = name /\ (round_idx.some => label.round_idx = round_idx)
    ELSE labels # {}

(* C24: get_labeled(names, round_idx) returns exactly the variants with a  *)
(* matching label for every name asked for (in the round asked for, when   *)
(* one is) and, with no names and no round, exactly the variants with at   *)
(* least one label; get_unlabeled returns exactly the other variants.      *)
C24_LabeledAndUnlabeled ==
    /\ (library.op = "get_labeled" /\ (library.names.some \/ ~library.round_idx.some))
       => library.out = {v \in 1..MaxLibrary :
                           Matches(library.labels[v], library.names, library.round_idx)}
    /\ library.op = "get_unlabeled"
       => library.out = (1..MaxLibrary)
                          \ get_labeled(library.labels, library.names, library.round_idx)
    /\ (library.op = "get_unlabeled" /\ (library.names.some \/ ~library.round_idx.some))
       => library.out = {v \in 1..MaxLibrary :
                           ~Matches(library.labels[v], library.names, library.round_idx)}

-----------------------------------------------------------------------------
(* What the claims on the whole lineage speak of *)

\* Every variant of the lineage materializes.
AllMaterialize(vs) == \A v \in 1..Len(vs) : Materialized(vs, v).ok

(* C25: a propegate, add_mutations, cut_parent or cut_children that        *)
(* succeeds on a lineage in which every variant materializes leaves a      *)
(* lineage in which every variant materializes: what validation accepts    *)
(* can be applied.                                                         *)
C25_AcceptedEditsApply ==
    [][(/\ AllMaterialize(variants)
        /\ last'.op \in {"propegate", "add_mutations", "cut_parent", "cut_children"}
        /\ last'.err = "none")
       => AllMaterialize(variants')]_vars

-----------------------------------------------------------------------------
(* What the claim on aggregation and application speaks of *)

\* The aggregated set fits base and applies to it as the set it was built
\* from, whose application gave out.
AggregatedAlike(agg, base, out, sd) ==
    /\ agg.ok
    /\ ValidOn(base, agg.val)
    /\ out.ok
    /\ get_variant_str(agg.val, base, sd) = out

(* C26: for a MutationSet that passes the constructor and fits a base      *)
(* sequence, the set built from it with aggregate_indels=True fits the     *)
(* base too and gives the same sequence when applied to it.                *)
C26_AggregationPreservesResult ==
    app.done =>
        AggregatedAlike(MutationSetInit(app.muts, TRUE, seed), app.base, app.out, seed)

-----------------------------------------------------------------------------
(* What the claim on the child built from parsed mutations speaks of *)

\* parse_mutations got as far as its scan: the lengths were equal, or an
\* alignment was made.
Scanned == diff.done /\ ~(Len(diff.self) # Len(diff.other) /\ diff.query = <<>>)

\* The call was made with aggregate_indels=False.
NotAggregated == diff.out = parse_mutations(diff.query, diff.subject, FALSE, seed)

(* C27: for two sequences of residues, of equal length without indels and  *)
(* of any lengths with any alignment with indels, parse_mutations without  *)
(* aggregation returns a set, and the child that propegate builds from it  *)
(* is created without error and materializes to the other sequence.        *)
C27_ChildIsOther ==
    (Scanned /\ NotAggregated)
    => /\ diff.out.ok
       /\ last.op = "propegate"
          => /\ last.err = "none"
             /\ Materialized(variants, 2) = Ok(diff.other)

\* The child of a variant was built from an alignment with a gap on either
\* side, and is the other sequence.
C27_Witness ==
    /\ Scanned
    /\ NotAggregated
    /\ last = [op |-> "propegate", err |-> "none"]
    /\ \E j \in 1..Len(diff.query) : diff.query[j] = Gap
    /\ \E j \in 1..Len(diff.subject) : diff.subject[j] = Gap
    /\ diff.self # diff.other
    /\ Materialized(variants, 2) = Ok(diff.other)

-----------------------------------------------------------------------------
(* What the frame claim on the lineage speaks of *)

\* The Variants present before and after a step whose sequence, or whose
\* edit set, the step changed.  A sequence is a function of the edit sets
\* and the literal base from the Variant up to its root, and is compared
\* only when one of these changed.
RECURSIVE Inherited(_, _)
Inherited(vs, u) ==
    <<vs[u].mutations, vs[u].base_sequence>>
        \o (IF vs[u].parent = 0 THEN <<>> ELSE Inherited(vs, vs[u].parent))

SequenceChanged ==
    {u \in Ids : /\ Inherited(variants', u) # Inherited(variants, u)
                 /\ Materialized(variants', u) # Materialized(variants, u)}

EditsChanged == {u \in Ids : variants'[u].mutations # variants[u].mutations}

(* C28: propegate, add_mutations, cut_parent and cut_children change the   *)
(* materialized sequence of no Variant, except that an add_mutations that  *)
(* succeeds may change the sequence of the one Variant whose edit set it   *)
(* changed.                                                                *)
C28_OnlyOwnSequenceChanges ==
    [][last'.op \in {"propegate", "add_mutations", "cut_parent", "cut_children"}
       => /\ SequenceChanged \subseteq EditsChanged
          /\ Cardinality(EditsChanged) <= 1
          /\ EditsChanged # {} => last' = [op |-> "add_mutations", err |-> "none"]]_vars

\* A child with a sibling and a cut-off former child of its own holds
\* edits that change its sequence.
C28_Witness ==
    /\ last = [op |-> "add_mutations", err |-> "none"]
    /\ Len(variants) >= 2
    /\ \E v \in Ids :
          /\ variants[v].parent # 0
          /\ variants[v].mutations # {}
          /\ Materialized(variants, v).ok
          /\ Materialized(variants, v) # BaseOf(variants, v)

-----------------------------------------------------------------------------
(* What the claim on the shape of the lineage speaks of *)

\* Following the parent references from v reaches, in at most n steps, a
\* Variant without parent that holds a literal base.
RECURSIVE ReachesRoot(_, _, _)
ReachesRoot(vs, v, n) ==
    IF vs[v].parent = 0 THEN vs[v].base_sequence.some
    ELSE /\ n > 0
         /\ vs[v].parent \in 1..Len(vs)
         /\ ReachesRoot(vs, vs[v].parent, n - 1)

(* C29: in every state, C is among the children of P exactly when the      *)
(* parent of C is P, and the parent references lead from every Variant to  *)
(* a root, a Variant without parent that holds a literal base, in at most  *)
(* as many steps as there are Variants: the lineage is a forest.           *)
C29_Forest ==
    /\ \A c \in Ids, p \in Ids : c \in variants[p].children <=> variants[c].parent = p
    /\ \A p \in Ids : variants[p].children \subseteq Ids
    /\ \A v \in Ids : ReachesRoot(variants, v, Len(variants))

\* A chain of three Variants, and a root with a child next to a cut-off
\* Variant, have been built.
C29_Witness ==
    /\ Len(variants) = 3
    /\ \/ variants[3].parent = 2 /\ variants[2].parent = 1
       \/ /\ \E v \in Ids : variants[v].parent # 0
          /\ \E v \in 2..3 : variants[v].parent = 0 /\ variants[v].base_sequence.some
    /\ last.op \in {"propegate", "cut_parent", "cut_children"}

-----------------------------------------------------------------------------
(* What the claim on a single Mutation speaks of *)

\* m applied to base: the residues before its position, its replacement
\* text without gaps, the residues after its reference.
AppliedTo(m, base) ==
    (SubSeq(base, 1, m.position) \o remove_gaps(m.alt))
        \o SubSeq(base, m.position + initial_width(m) + 1, Len(base))

(* C30: for a Variant with or without edits of its own and one Mutation m, *)
(* m.get_variant_str(v) and MutationSet([m]).get_variant_str(v) both fail, *)
(* or both return m applied to the base sequence of v.                     *)
C30_SingleAsSet ==
    (app.done /\ app.set_done)
    => /\ app.out.ok = app.set_out.ok
       /\ app.out.ok
          => /\ app.out = app.set_out
             /\ \A m \in mset : app.out = Ok(AppliedTo(m, app.base))

=============================================================================
